---- MODULE Spec2Model ----
(***************************************************************************)
(* A model of the lesson-booking backend: the Express application of       *)
(* src/server.js (lessons keyed by subject), its earlier revision in       *)
(* src/unnamed/part_000 lines 19-199 (lessons keyed by a numeric id) and   *)
(* the frontend-serving revision of src/unnamed/part_001.                  *)
(*                                                                         *)
(* Three specifications share the variables:                               *)
(*   Spec        the four store-backed handlers above the document store   *)
(*   SearchSpec  the search filter as a pure function of q and the lessons *)
(*   PipeSpec    the middleware pipeline in front of the handlers          *)
(***************************************************************************)
EXTENDS Integers, Sequences, FiniteSets, TLC

VARIABLES
    rev,        \* which revision of the server is running
    Lessons,    \* the Lessons collection, in store order
    Orders,     \* the Orders collection, in insertion order
    now,        \* the server clock that new Date() reads
    alive,      \* the dispatcher process has not crashed
    req,        \* the request a handler is serving
    pc,         \* the handler's position: idle, await, done
    op,         \* the store operation the handler awaits
    reply,      \* how the store answered it: none, ok, refused, error
    nOps,       \* store operations issued for req
    nRes,       \* responses written for req
    res,        \* the response written for req
    pre,        \* the collections as they were when req arrived
    preq,       \* the request in the middleware pipeline
    ppc,        \* its position in the pipeline
    logged,     \* the logger has printed a line for preq
    pres,       \* the response written for preq
    imageFile   \* whether the requested file exists in images/

storeVars == <<Lessons, Orders, now, alive, req, pc, op, reply, nOps, nRes, res, pre>>
pipeVars == <<preq, ppc, logged, pres, imageFile>>
vars == <<rev, storeVars, pipeVars>>

(***************************************************************************)
(* Bounds                                                                  *)
(***************************************************************************)
MaxOrders == 2
MaxClock == 1
MaxQLen == 3

(***************************************************************************)
(* JSON values. Strings are sequences of one-character strings, so that    *)
(* trimming, escaping, matching and Number() work on their characters.     *)
(***************************************************************************)
JUndef == [t |-> "undefined", v |-> 0]
JNull == [t |-> "null", v |-> 0]
JNaN == [t |-> "nan", v |-> 0]
JNum(n) == [t |-> "num", v |-> n]
JStr(s) == [t |-> "str", v |-> s]
JArr(a) == [t |-> "arr", v |-> a]
JDate(d) == [t |-> "date", v |-> d]

EmptyObj == [f \in {} |-> 0]
Field(o, f) == IF f \in DOMAIN o THEN o[f] ELSE JUndef

\* JavaScript's ToBoolean, as the ! operator applies it
Truthy(x) ==
    CASE x.t = "undefined" -> FALSE
      [] x.t = "null" -> FALSE
      [] x.t = "nan" -> FALSE
      [] x.t = "num" -> x.v # 0
      [] x.t = "str" -> x.v # <<>>
      [] OTHER -> TRUE

IsArray(x) == x.t = "arr"

\* The driver stores an undefined field as null
Serialize(x) == IF x.t = "undefined" THEN JNull ELSE x

Digit(c) == CASE c = "0" -> 0 [] c = "1" -> 1 [] c = "2" -> 2 [] OTHER -> -1

RECURSIVE DigitsValue(_)
DigitsValue(s) ==
    IF s = <<>> THEN 0
    ELSE 10 * DigitsValue(SubSeq(s, 1, Len(s) - 1)) + Digit(s[Len(s)])

\* Number(req.params.id) on a route parameter made of letters and digits
ToNumber(s) ==
    IF s # <<>> /\ \A i \in 1..Len(s) : Digit(s[i]) >= 0
    THEN JNum(DigitsValue(s))
    ELSE JNaN

(***************************************************************************)
(* The revisions                                                           *)
(***************************************************************************)
StoreRevs == {"bySubject", "byId"}

\* the body field that holds an order's lesson references
RefField(rv) == IF rv = "bySubject" THEN "lessonSubjects" ELSE "lessonIDs"

\* the lesson field PUT /lessons/:ref matches on
KeyField(rv) == IF rv = "bySubject" THEN "subject" ELSE "id"

\* the value the route parameter is matched as
KeyValue(rv, param) == IF rv = "bySubject" THEN JStr(param) ELSE ToNumber(param)

(***************************************************************************)
(* Strings of the search: trimming, escaping, and the regular expression   *)
(* new RegExp(safe, 'i') builds and the store evaluates.                   *)
(***************************************************************************)
\* a character class that leaves the dot out
EscapeSet_NoDot == {"*", "+", "?", "^", "$", "{", "}", "(", ")", "|", "[", "]", "\\"}

\* the characters of /[.*+?^${}()|[\]\\]/, which escapeRegex puts a backslash before
EscapeSet == {".", "*", "+", "?", "^", "$", "{", "}", "(", ")", "|", "[", "]", "\\"}

Whitespace == {" "}

RECURSIVE TrimStart(_)
TrimStart(s) ==
    IF s # <<>> /\ Head(s) \in Whitespace THEN TrimStart(Tail(s)) ELSE s

RECURSIVE TrimEnd(_)
TrimEnd(s) ==
    IF s # <<>> /\ s[Len(s)] \in Whitespace
    THEN TrimEnd(SubSeq(s, 1, Len(s) - 1))
    ELSE s

\* String.prototype.trim
Trim(s) == TrimEnd(TrimStart(s))

RECURSIVE escapeRegex(_)
escapeRegex(s) ==
    IF s = <<>> THEN <<>>
    ELSE (IF Head(s) \in EscapeSet THEN <<"\\", Head(s)>> ELSE <<Head(s)>>)
         \o escapeRegex(Tail(s))

\* case folding of the 'i' flag
Fold(c) == CASE c = "A" -> "a" [] c = "M" -> "m" [] OTHER -> c

QuantChars == {"*", "+", "?"}

\* the characters of a class [...] from position i up to its closing bracket
ClassAdd(c, r) == [r EXCEPT !.set = r.set \cup {c}]

RECURSIVE ParseClass(_, _)
ParseClass(p, i) ==
    LET esc == i <= Len(p) /\ p[i] = "\\"
    IN  IF i > Len(p) \/ (esc /\ i + 1 > Len(p)) THEN [ok |-> FALSE, set |-> {}, pos |-> i]
        ELSE IF p[i] = "]" THEN [ok |-> TRUE, set |-> {}, pos |-> i + 1]
        ELSE ClassAdd(IF esc THEN p[i + 1] ELSE p[i], ParseClass(p, IF esc THEN i + 2 ELSE i + 1))

\* The parser reads the pattern left to right. Its state: the position, a stack
\* of open groups (the finished alternatives and the terms of the current one),
\* and what the next quantifier would apply to: an atom, a quantifier (which only
\* a lazy ? may follow) or nothing.
ParseStart ==
    [ok |-> TRUE, pos |-> 1, last |-> "none", stack |-> <<[alts |-> <<>>, terms |-> <<>>]>>]

Failed(st) == [st EXCEPT !.ok = FALSE]

\* the term added to the innermost open group
Push(st, node, width, kind) ==
    [st EXCEPT !.pos = st.pos + width,
               !.last = kind,
               !.stack[Len(st.stack)].terms = Append(@, node)]

\* the quantifier c applied to the last term of the innermost open group
Quantify(st, c) ==
    [st EXCEPT !.pos = st.pos + 1,
               !.last = "quant",
               !.stack[Len(st.stack)].terms =
                   [@ EXCEPT ![Len(@)] = [k |-> "rep", q |-> c, node |-> @]]]

\* the alternatives of a group once it is closed
Alts(frame) == Append(frame.alts, frame.terms)

PushClass(st, neg, r) ==
    IF r.ok
    THEN Push([st EXCEPT !.pos = r.pos], [k |-> "class", neg |-> neg, set |-> r.set], 0, "atom")
    ELSE Failed(st)

ParseStep(p, st) ==
    LET i == st.pos
        c == p[i]
        depth == Len(st.stack)
        next == IF i + 1 <= Len(p) THEN p[i + 1] ELSE ""
    IN  CASE c \in QuantChars ->
                IF st.last = "atom" THEN Quantify(st, c)
                ELSE IF st.last = "quant" /\ c = "?"
                THEN [st EXCEPT !.pos = i + 1, !.last = "none"]
                ELSE Failed(st)
          [] c = "^" -> Push(st, [k |-> "bol"], 1, "none")
          [] c = "$" -> Push(st, [k |-> "eol"], 1, "none")
          [] c = "(" ->
                IF next = "?" THEN Failed(st)
                ELSE [st EXCEPT !.pos = i + 1, !.last = "none",
                                !.stack = Append(@, [alts |-> <<>>, terms |-> <<>>])]
          [] c = ")" ->
                IF depth = 1 THEN Failed(st)
                ELSE Push([st EXCEPT !.stack = SubSeq(@, 1, depth - 1)],
                          [k |-> "alt", alts |-> Alts(st.stack[depth])], 1, "atom")
          [] c = "|" ->
                [st EXCEPT !.pos = i + 1, !.last = "none",
                           !.stack[depth] = [alts |-> Alts(@), terms |-> <<>>]]
          [] c = "[" ->
                PushClass(st, next = "^", ParseClass(p, IF next = "^" THEN i + 2 ELSE i + 1))
          [] c = "\\" ->
                IF next = "" THEN Failed(st) ELSE Push(st, [k |-> "lit", c |-> next], 2, "atom")
          [] c = "." -> Push(st, [k |-> "any"], 1, "atom")
          [] OTHER -> Push(st, [k |-> "lit", c |-> c], 1, "atom")

RECURSIVE Parse(_, _)
Parse(p, st) == IF ~st.ok \/ st.pos > Len(p) THEN st ELSE Parse(p, ParseStep(p, st))

Parsed(st) ==
    IF st.ok /\ Len(st.stack) = 1
    THEN [ok |-> TRUE, node |-> [k |-> "alt", alts |-> Alts(st.stack[1])]]
    ELSE [ok |-> FALSE, node |-> [k |-> "any"]]

\* new RegExp(pattern, 'i'): the parsed pattern, or a SyntaxError
RegExp(pattern) == Parsed(Parse(pattern, ParseStart))

RECURSIVE Ends(_, _, _)
RECURSIVE EndsOfTerms(_, _, _)
RECURSIVE Closure(_, _, _)

\* the positions the terms can end at when they start at i (i characters consumed)
EndsOfTerms(terms, s, i) ==
    IF terms = <<>> THEN {i}
    ELSE UNION {EndsOfTerms(Tail(terms), s, j) : j \in Ends(Head(terms), s, i)}

\* the positions reachable from `from` by repeating node
Closure(node, s, from) ==
    LET more == from \cup UNION {Ends(node, s, j) : j \in from}
    IN  IF more = from THEN from ELSE Closure(node, s, more)

\* the positions node can end at when it starts at i
Ends(node, s, i) ==
    CASE node.k = "lit" ->
            IF i < Len(s) /\ Fold(s[i + 1]) = Fold(node.c) THEN {i + 1} ELSE {}
      [] node.k = "any" -> IF i < Len(s) THEN {i + 1} ELSE {}
      [] node.k = "class" ->
            IF i < Len(s) /\ ((Fold(s[i + 1]) \in {Fold(c) : c \in node.set}) # node.neg)
            THEN {i + 1}
            ELSE {}
      [] node.k = "bol" -> IF i = 0 THEN {i} ELSE {}
      [] node.k = "eol" -> IF i = Len(s) THEN {i} ELSE {}
      [] node.k = "alt" ->
            UNION {EndsOfTerms(node.alts[a], s, i) : a \in DOMAIN node.alts}
      [] node.k = "rep" ->
            CASE node.q = "*" -> Closure(node.node, s, {i})
              [] node.q = "+" -> Closure(node.node, s, Ends(node.node, s, i))
              [] OTHER -> {i} \cup Ends(node.node, s, i)

\* regex.test(s): the pattern matches somewhere in s
Matches(regex, s) == \E i \in 0..Len(s) : Ends(regex.node, s, i) # {}

(***************************************************************************)
(* The document store: find, insertOne and updateOne on a collection       *)
(***************************************************************************)
\* the filter GET /search builds from req.query.q
SearchFilter(q) ==
    LET raw == IF q.has /\ q.val # <<>> THEN q.val ELSE <<>>
        trimmed == Trim(raw)
    IN  IF Len(trimmed) > 0
        THEN LET regex == RegExp(escapeRegex(trimmed))
             IN  [all |-> FALSE, ok |-> regex.ok, regex |-> regex]
        ELSE [all |-> TRUE, ok |-> TRUE, regex |-> [ok |-> TRUE, node |-> [k |-> "any"]]]

AllFilter == SearchFilter([has |-> FALSE, val |-> <<>>])

\* { field: regex } on one document
FieldMatches(doc, f, regex) ==
    f \in DOMAIN doc /\ doc[f].t = "str" /\ Matches(regex, doc[f].v)

\* {} or { $or: [ { subject: regex }, { location: regex } ] } on one document
DocMatches(filter, doc) ==
    \/ filter.all
    \/ FieldMatches(doc, "subject", filter.regex)
    \/ FieldMatches(doc, "location", filter.regex)

\* collection.find(filter).toArray()
Find(coll, filter) == SelectSeq(coll, LAMBDA d : DocMatches(filter, d))

\* the object o with the fields of upd written over it
Merge(o, upd) ==
    [f \in DOMAIN o \cup DOMAIN upd |-> IF f \in DOMAIN upd THEN upd[f] ELSE o[f]]

\* a replacement of the document instead of a merge into it
SetFields_Replace(doc, upd) == Merge(upd, [f \in {"_id"} |-> doc["_id"]])

\* { $set: upd } on one document
SetFields(doc, upd) == Merge(doc, upd)

\* the documents { field: value } selects, in store order
Matching(coll, f, value) == {i \in DOMAIN coll : f \in DOMAIN coll[i] /\ coll[i][f] = value}

Min(S) == CHOOSE x \in S : \A y \in S : x <= y

\* updateOne touches the first matching document only
UpdateTarget(coll, f, value) ==
    IF Matching(coll, f, value) = {} THEN 0 ELSE Min(Matching(coll, f, value))

\* the store refuses an update that would change a document's _id
UpdateRejected(coll, o) ==
    LET i == UpdateTarget(coll, o.field, o.value)
    IN  i # 0 /\ SetFields(coll[i], o.update)["_id"] # coll[i]["_id"]

\* an update with upsert: true, which inserts when nothing matches
UpdateOne_Upsert(coll, o) ==
    LET i == UpdateTarget(coll, o.field, o.value)
    IN  IF i = 0
        THEN Append(coll, Merge(o.update, [f \in {o.field} |-> o.value]))
        ELSE [coll EXCEPT ![i] = SetFields(coll[i], o.update)]

\* collection.updateOne({ field: value }, { $set: update }): the collection afterwards
UpdateOne(coll, o) ==
    LET i == UpdateTarget(coll, o.field, o.value)
    IN  IF i = 0 THEN coll ELSE [coll EXCEPT ![i] = SetFields(coll[i], o.update)]

MatchedCount(coll, o) == IF UpdateTarget(coll, o.field, o.value) = 0 THEN 0 ELSE 1

ModifiedCount(coll, o) == IF UpdateOne(coll, o) = coll THEN 0 ELSE 1

\* the identifier the driver gives an inserted document
InsertedId(coll) == JNum(Len(coll) + 1)

\* an insert that skips an order already stored
InsertOne_Dedup(coll, doc) ==
    IF \E i \in DOMAIN coll : [f \in DOMAIN coll[i] \ {"_id"} |-> coll[i][f]] = doc
    THEN coll
    ELSE Append(coll, Merge(doc, [f \in {"_id"} |-> InsertedId(coll)]))

\* collection.insertOne(doc): the collection afterwards
InsertOne(coll, doc) ==
    Append(coll, Merge(doc, [f \in {"_id"} |-> InsertedId(coll)]))

(***************************************************************************)
(* Requests, store operations and responses of the handlers                *)
(***************************************************************************)
NoOp == [kind |-> "none"]
NoRes == [status |-> 0, kind |-> "none", docs |-> <<>>, n |-> 0]
ErrorJson(st) == [status |-> st, kind |-> "error", docs |-> <<>>, n |-> 0]
ErrorText(st) == [status |-> st, kind |-> "text", docs |-> <<>>, n |-> 0]
DocsJson(docs) == [status |-> 200, kind |-> "docs", docs |-> docs, n |-> 0]

\* a validation without the check for an empty array
InvalidOrder_NoLength(rv, body) ==
    \/ ~Truthy(Field(body, "name"))
    \/ ~Truthy(Field(body, "phone"))
    \/ ~IsArray(Field(body, RefField(rv)))

\* POST /orders: !name || !phone || !Array.isArray(refs) || refs.length === 0
InvalidOrder(rv, body) ==
    \/ ~Truthy(Field(body, "name"))
    \/ ~Truthy(Field(body, "phone"))
    \/ ~IsArray(Field(body, RefField(rv)))
    \/ Len(Field(body, RefField(rv)).v) = 0

\* the fields the handler copies from the body
OrderFields(rv) == {"name", "phone", RefField(rv), "spaces", "items"}

\* where createdAt comes from: new Date()
CreatedAt(body, clock) == JDate(clock)

\* the document POST /orders hands to insertOne
OrderDoc(rv, body, clock) ==
    [f \in OrderFields(rv) \cup {"createdAt"} |->
        IF f = "createdAt" THEN CreatedAt(body, clock) ELSE Serialize(Field(body, f))]

\* PUT /lessons/:ref: !updateData || Object.keys(updateData).length === 0
EmptyUpdate(body) == ~body.has \/ DOMAIN body.val = {}

\* a catch block that answers as if nothing was found
Caught_Empty(r) == DocsJson(<<>>)

\* the response a handler's catch block writes
Caught(r) == IF r.kind = "lessons" THEN ErrorText(500) ELSE ErrorJson(500)

\* the operation a handler issues, or the response it writes before any
Issue(rv, r, clock) ==
    CASE r.kind = "lessons" ->
            [op |-> [kind |-> "find", coll |-> "Lessons", filter |-> AllFilter], res |-> NoRes]
      [] r.kind = "search" ->
            IF SearchFilter(r.q).ok
            THEN [op |-> [kind |-> "find", coll |-> "Lessons", filter |-> SearchFilter(r.q)],
                  res |-> NoRes]
            ELSE [op |-> NoOp, res |-> Caught(r)]
      [] r.kind = "order" ->
            IF InvalidOrder(rv, r.body)
            THEN [op |-> NoOp, res |-> ErrorJson(400)]
            ELSE [op |-> [kind |-> "insertOne", coll |-> "Orders",
                          doc |-> OrderDoc(rv, r.body, clock)],
                  res |-> NoRes]
      [] r.kind = "update" ->
            IF EmptyUpdate(r.body)
            THEN [op |-> NoOp, res |-> ErrorJson(400)]
            ELSE [op |-> [kind |-> "updateOne", coll |-> "Lessons", field |-> KeyField(rv),
                          value |-> KeyValue(rv, r.param), update |-> r.body.val],
                  res |-> NoRes]

\* the store refuses the operation
Rejected(o, lessons) == o.kind = "updateOne" /\ UpdateRejected(lessons, o)

\* the collections after the store has applied the operation
LessonsAfter(o, lessons) == IF o.kind = "updateOne" THEN UpdateOne(lessons, o) ELSE lessons

OrdersAfter(o, orders) == IF o.kind = "insertOne" THEN InsertOne(orders, o.doc) ELSE orders

\* the response the handler writes once the awaited operation has returned
Continue(o, lessons, orders) ==
    CASE o.kind = "find" -> DocsJson(Find(lessons, o.filter))
      [] o.kind = "insertOne" ->
            [status |-> 201, kind |-> "created", docs |-> <<>>, n |-> InsertedId(orders).v]
      [] o.kind = "updateOne" ->
            IF MatchedCount(lessons, o) = 0
            THEN ErrorJson(404)
            ELSE [status |-> 200, kind |-> "updated", docs |-> <<>>,
                  n |-> ModifiedCount(lessons, o)]

(***************************************************************************)
(* The seeded lessons and the requests the clients send                    *)
(***************************************************************************)
Lesson1 ==
    [_id |-> JNum(101), id |-> JNum(1), subject |-> JStr(<<"a">>),
     location |-> JStr(<<"A", "m">>), spaces |-> JNum(5)]

Lesson2 ==
    [_id |-> JNum(102), id |-> JNum(2), subject |-> JStr(<<"m">>),
     location |-> JStr(<<"a", ".">>), spaces |-> JNum(5)]

SeedLessons == <<Lesson1, Lesson2>>

Absent == [has |-> FALSE, val |-> <<>>]
Present(x) == [has |-> TRUE, val |-> x]

Obj1(f, x) == [g \in {f} |-> x]

SearchQueries == {Absent, Present(<<" ">>), Present(<<".">>), Present(<<" ", "A">>)}

Al == JStr(<<"A", "l">>)
Phone == JStr(<<"5", "5", "5">>)
RefsOne(rv) == JArr(<<IF rv = "bySubject" THEN JStr(<<"a">>) ELSE JNum(1)>>)

BaseOrder(rv) == [f \in {"name", "phone", RefField(rv)} |->
                    CASE f = "name" -> Al [] f = "phone" -> Phone [] OTHER -> RefsOne(rv)]

Without(o, f) == [g \in DOMAIN o \ {f} |-> o[g]]

\* an order with every optional field, its name a number
FullOrder(rv) ==
    Merge(BaseOrder(rv),
              [f \in {"name", "spaces", "items", "createdAt"} |->
                  CASE f = "name" -> JNum(7)
                    [] f = "spaces" -> JNum(2)
                    [] f = "items" -> JArr(<<>>)
                    [] OTHER -> JDate(99)])

\* two orders the validation accepts, and orders that differ from the first in one field
OrderBodies(rv) ==
    {BaseOrder(rv), FullOrder(rv)}
    \cup {Without(BaseOrder(rv), f) : f \in {"name", "phone", RefField(rv)}}
    \cup {Merge(BaseOrder(rv), Obj1("name", x)) : x \in {JStr(<<>>), JNull, JNum(0)}}
    \cup {Merge(BaseOrder(rv), Obj1("phone", x)) : x \in {JStr(<<>>)}}
    \cup {Merge(BaseOrder(rv), Obj1(RefField(rv), x)) : x \in {JArr(<<>>), JStr(<<"a">>)}}
    \cup {Merge(Without(BaseOrder(rv), RefField(rv)),
                    Obj1(RefField(CHOOSE o \in StoreRevs : o # rv), RefsOne(rv)))}

\* route parameters: two that match a seeded lesson and one that matches none
UpdateParams(rv) ==
    IF rv = "bySubject" THEN {<<"a">>, <<"m">>, <<"1">>} ELSE {<<"1">>, <<"2">>, <<"a">>}

\* the identifier of the second seeded lesson
OtherKey(rv) == IF rv = "bySubject" THEN JStr(<<"m">>) ELSE JNum(2)

UpdateBodies(rv) ==
    {Present(Obj1("spaces", JNum(3))), Present(Obj1(KeyField(rv), OtherKey(rv))),
     Present([f \in {"spaces", "price"} |-> IF f = "spaces" THEN JNum(3) ELSE JNum(9)]),
     Present(Obj1("_id", JNum(999)))}

Requests(rv) ==
    {[kind |-> "lessons"]}
    \cup {[kind |-> "search", q |-> q] : q \in SearchQueries}
    \cup {[kind |-> "order", body |-> b] : b \in OrderBodies(rv)}
    \cup {[kind |-> "update", param |-> p, body |-> b] :
            p \in UpdateParams(rv), b \in UpdateBodies(rv)}
    \cup {[kind |-> "update", param |-> <<"a">>, body |-> b] : b \in {Absent, Present(EmptyObj)}}

(***************************************************************************)
(* The handlers                                                            *)
(***************************************************************************)
NoReq == [kind |-> "none"]
NoPReq == [method |-> "none"]
NoPRes == [status |-> 0, kind |-> "none", existed |-> FALSE]

StoreIdle ==
    /\ alive = TRUE
    /\ req = NoReq
    /\ pc = "idle"
    /\ op = NoOp
    /\ reply = "none"
    /\ nOps = 0
    /\ nRes = 0
    /\ res = NoRes
    /\ pre = [Lessons |-> Lessons, Orders |-> Orders]

PipeIdle ==
    /\ preq = NoPReq
    /\ ppc = "idle"
    /\ logged = FALSE
    /\ pres = NoPRes
    /\ imageFile = TRUE

Init ==
    /\ rev \in StoreRevs
    /\ Lessons = SeedLessons
    /\ Orders = <<>>
    /\ now = 0
    /\ StoreIdle
    /\ PipeIdle

\* the clock advances
Tick ==
    /\ now < MaxClock
    /\ now' = now + 1
    /\ UNCHANGED <<rev, Lessons, Orders, alive, req, pc, op, reply, nOps, nRes, res, pre, pipeVars>>

\* a request reaches its route and the handler runs up to its await, or to the
\* response it writes before any
Handle(r) ==
    /\ alive
    /\ pc \in {"idle", "done"}
    /\ r.kind = "order" => Len(Orders) < MaxOrders
    /\ req' = r
    /\ reply' = "none"
    /\ pre' = [Lessons |-> Lessons, Orders |-> Orders]
    /\ LET i == Issue(rev, r, now)
       IN  IF i.op.kind = "none"
           THEN /\ op' = NoOp
                /\ nOps' = 0
                /\ res' = i.res
                /\ nRes' = 1
                /\ pc' = "done"
           ELSE /\ op' = i.op
                /\ nOps' = 1
                /\ res' = NoRes
                /\ nRes' = 0
                /\ pc' = "await"
    /\ UNCHANGED <<rev, Lessons, Orders, now, alive, pipeVars>>

\* the store applies the operation and the handler writes its response
StoreOk ==
    /\ pc = "await"
    /\ ~Rejected(op, Lessons)
    /\ reply' = "ok"
    /\ Lessons' = LessonsAfter(op, Lessons)
    /\ Orders' = OrdersAfter(op, Orders)
    /\ res' = Continue(op, Lessons, Orders)
    /\ nRes' = nRes + 1
    /\ pc' = "done"
    /\ UNCHANGED <<rev, now, alive, req, op, nOps, pre, pipeVars>>

\* the store refuses the operation and the handler's catch block writes the response
StoreRefuse ==
    /\ pc = "await"
    /\ Rejected(op, Lessons)
    /\ reply' = "refused"
    /\ res' = Caught(req)
    /\ nRes' = nRes + 1
    /\ pc' = "done"
    /\ UNCHANGED <<rev, Lessons, Orders, now, alive, req, op, nOps, pre, pipeVars>>

\* the store cannot be reached and the handler's catch block writes the response
StoreError ==
    /\ pc = "await"
    /\ reply' = "error"
    /\ res' = Caught(req)
    /\ nRes' = nRes + 1
    /\ pc' = "done"
    /\ UNCHANGED <<rev, Lessons, Orders, now, alive, req, op, nOps, pre, pipeVars>>

Next ==
    \/ Tick
    \/ \E r \in Requests(rev) : Handle(r)
    \/ StoreOk
    \/ StoreRefuse
    \/ StoreError

Spec == Init /\ [][Next]_vars

(***************************************************************************)
(* Properties of the handlers                                              *)
(***************************************************************************)
InFlight == pc \in {"await", "done"}
Done == pc = "done"
IsPrefix(a, b) == Len(a) <= Len(b) /\ SubSeq(b, 1, Len(a)) = a

\* a value JavaScript treats as false, or a missing one
Falsy(x) == x \in {JUndef, JNull, JNaN, JNum(0), JStr(<<>>)}

\* the order bodies the validation is to reject
BadOrder(body) ==
    \/ Falsy(Field(body, "name"))
    \/ Falsy(Field(body, "phone"))
    \/ Field(body, RefField(rev)).t # "arr"
    \/ Field(body, RefField(rev)).v = <<>>

\* C1: a POST /orders whose name or phone is missing or falsy, or whose lesson
\* references are missing, not an array or empty, is answered 400 and issues no
\* store operation: both collections are as they were when it arrived.
C1_InvalidOrderRejected ==
    (InFlight /\ req.kind = "order" /\ BadOrder(req.body)) =>
        /\ Done
        /\ res.status = 400
        /\ nOps = 0
        /\ reply = "none"
        /\ Orders = pre.Orders
        /\ Lessons = pre.Lessons

C1_Witness ==
    /\ Done
    /\ req.kind = "order"
    /\ "name" \notin DOMAIN req.body
    /\ res.status = 400
    /\ Orders # <<>>

\* C2: a POST /orders that passes validation and whose insert succeeds appends
\* exactly one record to Orders, carrying the fields of the body, a createdAt
\* read from the server clock and a fresh identifier, and is answered 201 with
\* that identifier, also when an identical order is already stored; and no
\* request modifies or removes an order that was there when it arrived.
C2_ValidOrderInsertsOne ==
    /\ InFlight => IsPrefix(pre.Orders, Orders)
    /\ (Done /\ req.kind = "order" /\ ~BadOrder(req.body) /\ reply = "ok") =>
        /\ Len(Orders) = Len(pre.Orders) + 1
        /\ LET o == Orders[Len(Orders)]
           IN  /\ o.name = req.body.name
               /\ o.phone = req.body.phone
               /\ o[RefField(rev)] = req.body[RefField(rev)]
               /\ o.createdAt.t = "date"
               /\ o.createdAt.v \in 0..now
               /\ \A i \in 1..Len(pre.Orders) : Orders[i]["_id"] # o["_id"]
               /\ res.status = 201
               /\ JNum(res.n) = o["_id"]

\* two stored orders that differ in their identifier only
C2_Witness ==
    /\ Done
    /\ req.kind = "order"
    /\ reply = "ok"
    /\ Len(Orders) = 2
    /\ Without(Orders[1], "_id") = Without(Orders[2], "_id")
    /\ "createdAt" \in DOMAIN req.body

\* C3: every stored order has a non-empty string as name, a non-empty string
\* as phone, and a non-empty array of lesson references.
C3_StoredOrdersWellFormed ==
    \A i \in DOMAIN Orders :
        /\ Orders[i].name.t = "str" /\ Orders[i].name.v # <<>>
        /\ Orders[i].phone.t = "str" /\ Orders[i].phone.v # <<>>
        /\ Orders[i][RefField(rev)].t = "arr" /\ Orders[i][RefField(rev)].v # <<>>

\* the lessons of coll the route parameter of r refers to
Referred(coll, r) ==
    {i \in DOMAIN coll :
        IF rev = "bySubject"
        THEN coll[i].subject = JStr(r.param)
        ELSE coll[i].id = ToNumber(r.param)}

NonEmptyBody(r) == r.body.has /\ DOMAIN r.body.val # {}

\* one lesson the request refers to has the body's fields set to the body's
\* values and its other fields as before; every other lesson and the Orders
\* collection are as they were; the answer is 200
MergedIntoOne ==
    /\ res.status = 200
    /\ Orders = pre.Orders
    /\ Len(Lessons) = Len(pre.Lessons)
    /\ \E i \in Referred(pre.Lessons, req) :
        /\ \A j \in DOMAIN Lessons \ {i} : Lessons[j] = pre.Lessons[j]
        /\ DOMAIN Lessons[i] = DOMAIN pre.Lessons[i] \cup DOMAIN req.body.val
        /\ \A f \in DOMAIN Lessons[i] :
            Lessons[i][f] = IF f \in DOMAIN req.body.val
                            THEN req.body.val[f]
                            ELSE pre.Lessons[i][f]

C5_RejectedUpdateChangesNothing ==
    /\ (InFlight /\ req.kind = "update" /\ ~NonEmptyBody(req)) =>
        /\ Done
        /\ res.status = 400
        /\ nOps = 0
        /\ Lessons = pre.Lessons
    /\ (Done /\ req.kind = "update" /\ NonEmptyBody(req) /\ reply = "ok"
             /\ Referred(pre.Lessons, req) = {}) =>
        /\ res.status = 404
        /\ Lessons = pre.Lessons

C5_Witness ==
    /\ Done
    /\ req.kind = "update"
    /\ NonEmptyBody(req)
    /\ Referred(pre.Lessons, req) = {}
    /\ res.status = 404
    /\ Lessons # SeedLessons

\* C7: no two lessons share an identifier.
C7_LessonIdentifiersUnique ==
    \A i, j \in DOMAIN Lessons :
        i # j => Lessons[i][KeyField(rev)] # Lessons[j][KeyField(rev)]

\* C9: when the store operation of a request fails, the request is answered 500
\* once, after that one operation; both collections are as they were when it
\* arrived, and the server goes on to take the next request.
C9_StoreFailureIs500 ==
    (Done /\ reply \in {"error", "refused"}) =>
        /\ res.status = 500
        /\ nRes = 1
        /\ nOps = 1
        /\ Lessons = pre.Lessons
        /\ Orders = pre.Orders
        /\ alive
        /\ ENABLED Handle([kind |-> "lessons"])

C9_Witness ==
    /\ Done
    /\ reply = "error"
    /\ req.kind = "update"
    /\ Referred(Lessons, req) # {}
    /\ res.status = 500
    /\ Orders # <<>>

(***************************************************************************)
(* SearchSpec: GET /search on every query string up to MaxQLen characters  *)
(***************************************************************************)
Letters == {"a", "A", "m"}
QChars == Letters \cup Whitespace \cup
          {".", "*", "+", "?", "^", "$", "{", "}", "(", ")", "|", "[", "]", "\\"}

StringsUpTo(n) == UNION {[1..k -> QChars] : k \in 0..n}

AllQueries == {Absent} \cup {Present(x) : x \in StringsUpTo(MaxQLen)}

DocA ==
    [_id |-> JNum(201), subject |-> JStr(<<"a", "M">>),
     location |-> JStr(<<".", "*", "+", "?", "^", "$">>)]

DocB ==
    [_id |-> JNum(202), subject |-> JStr(<<"{", "}", "(", ")", "|", "[", "]", "\\">>),
     location |-> JStr(<<"m", " ", "A">>)]

DocC == [_id |-> JNum(203), subject |-> JStr(<<"A", "m", ".">>)]

DocD == [_id |-> JNum(204), subject |-> JNum(5), location |-> JStr(<<>>)]

SearchCollections == {<<>>, <<DocC>>, <<DocA, DocB, DocC, DocD>>}

\* the request that arrives: the handler is the same in both revisions
SearchInit ==
    /\ rev = "bySubject"
    /\ Lessons \in SearchCollections
    /\ Orders = <<>>
    /\ now = 0
    /\ alive = TRUE
    /\ req \in {[kind |-> "search", q |-> q] : q \in AllQueries}
    /\ pc = "idle"
    /\ op = NoOp
    /\ reply = "none"
    /\ nOps = 0
    /\ nRes = 0
    /\ res = NoRes
    /\ pre = [Lessons |-> Lessons, Orders |-> Orders]
    /\ PipeIdle

SearchNext ==
    \/ pc = "idle" /\ Handle(req)
    \/ StoreOk
    \/ StoreError

SearchSpec == SearchInit /\ [][SearchNext]_vars

\* q without its leading and trailing whitespace
Stripped(x) ==
    LET solid == {i \in DOMAIN x : x[i] # " "}
    IN  IF solid = {} THEN <<>>
        ELSE SubSeq(x, CHOOSE i \in solid : \A j \in solid : i <= j,
                       CHOOSE i \in solid : \A j \in solid : j <= i)

Lower(c) == IF c = "A" THEN "a" ELSE IF c = "M" THEN "m" ELSE c

\* text contains part, character by character, letters compared without case
ContainsNoCase(text, part) ==
    \E at \in 0..(Len(text) - Len(part)) :
        \A k \in 1..Len(part) : Lower(text[at + k]) = Lower(part[k])

HasString(doc, f) == f \in DOMAIN doc /\ doc[f].t = "str"

\* the lessons the search is to return for q
Selected(doc, q) ==
    LET part == IF q.has THEN Stripped(q.val) ELSE <<>>
    IN  \/ part = <<>>
        \/ HasString(doc, "subject") /\ ContainsNoCase(doc.subject.v, part)
        \/ HasString(doc, "location") /\ ContainsNoCase(doc.location.v, part)

\* C6: GET /search always reaches the store, and once the store has answered it
\* returns, in store order, all lessons when q is absent or blank, and otherwise
\* the lessons whose subject or location contains the trimmed q as a literal
\* substring, letters compared without case.
C6_SearchIsLiteralSubstring ==
    (InFlight /\ req.kind = "search") =>
        /\ nOps = 1
        /\ (Done /\ reply = "ok") =>
            /\ res.status = 200
            /\ res.kind = "docs"
            /\ res.docs = SelectSeq(pre.Lessons, LAMBDA d : Selected(d, req.q))

\* a query with a dot in it that selects some lessons and not others
C6_Witness ==
    /\ Done
    /\ req.kind = "search"
    /\ reply = "ok"
    /\ req.q.has
    /\ \E i \in DOMAIN req.q.val : req.q.val[i] = "."
    /\ Len(res.docs) = 2
    /\ Len(pre.Lessons) = 4

(***************************************************************************)
(* PipeSpec: the middleware in front of the routes, in registration order, *)
(* and the image file that an outside process creates and removes          *)
(***************************************************************************)
PipeRevs == StoreRevs \cup {"frontend"}

\* app.use(...) in the order of registration, then the router
Pipeline(rv) ==
    IF rv = "frontend"
    THEN <<"json", "cors", "frontendStatic", "logger", "route">>
    ELSE <<"json", "cors", "logger", "imageCheck", "imagesStatic", "route">>

\* next(): the middleware registered after stage
After(rv, stage) ==
    LET i == CHOOSE k \in DOMAIN Pipeline(rv) : Pipeline(rv)[k] = stage
    IN  Pipeline(rv)[i + 1]

\* paths, by their segments: /, /index.html, /lessons, /orders, /images/pic.png
Paths == {<<>>, <<"index.html">>, <<"lessons">>, <<"orders">>, <<"images", "pic.png">>}

PipeRequests ==
    {[method |-> m, path |-> p, body |-> "none"] : m \in {"GET", "POST", "OPTIONS"}, p \in Paths}
    \cup {[method |-> "POST", path |-> p, body |-> b] :
            p \in {<<"orders">>, <<"images", "pic.png">>}, b \in {"json", "malformed"}}

\* req.path.startsWith("/images/")
UnderImages(path) == Len(path) >= 2 /\ path[1] = "images"

\* the files of ../vueAppFrontend that express.static serves
FrontendFile(path) == path \in {<<>>, <<"index.html">>}

\* the routes of a revision that a store-backed or file handler answers
HandlerRoutes(rv) ==
    IF rv = "frontend"
    THEN {<<"GET", <<>>>>, <<"GET", <<"lessons">>>>}
    ELSE {<<"GET", <<"lessons">>>>, <<"POST", <<"orders">>>>}

\* app.get("/images/:filename") is registered
HasImageRoute(rv) == rv \in {"byId", "frontend"}

Answer(st, kind) == [status |-> st, kind |-> kind, existed |-> imageFile]

PipeInit ==
    /\ rev \in PipeRevs
    /\ Lessons = SeedLessons
    /\ Orders = <<>>
    /\ now = 0
    /\ StoreIdle
    /\ preq = NoPReq
    /\ ppc = "idle"
    /\ logged = FALSE
    /\ pres = NoPRes
    /\ imageFile \in BOOLEAN

Respond(r) == pres' = r /\ ppc' = "done" /\ UNCHANGED <<preq, logged, imageFile>>
Forward(stage) == ppc' = After(rev, stage) /\ UNCHANGED <<preq, logged, pres, imageFile>>

\* a request enters the pipeline
Arrive(r) ==
    /\ ppc \in {"idle", "done"}
    /\ preq' = r
    /\ ppc' = Pipeline(rev)[1]
    /\ logged' = FALSE
    /\ pres' = NoPRes
    /\ UNCHANGED <<rev, storeVars, imageFile>>

\* express.json(): a body it cannot parse goes to the error handler as a 400
Json ==
    /\ ppc = "json"
    /\ IF preq.body = "malformed" THEN Respond(Answer(400, "generic")) ELSE Forward("json")
    /\ UNCHANGED <<rev, storeVars>>

\* cors(): a preflight is answered 204 and ends there
Cors ==
    /\ ppc = "cors"
    /\ IF preq.method = "OPTIONS" THEN Respond(Answer(204, "empty")) ELSE Forward("cors")
    /\ UNCHANGED <<rev, storeVars>>

\* express.static(../vueAppFrontend): a GET of one of its files is served
FrontendStatic ==
    /\ ppc = "frontendStatic"
    /\ IF preq.method = "GET" /\ FrontendFile(preq.path)
       THEN Respond(Answer(200, "file"))
       ELSE Forward("frontendStatic")
    /\ UNCHANGED <<rev, storeVars>>

\* the logger prints its line and calls next()
Logger ==
    /\ ppc = "logger"
    /\ logged' = TRUE
    /\ ppc' = After(rev, "logger")
    /\ UNCHANGED <<rev, storeVars, preq, pres, imageFile>>

\* imageCheckMiddleware: next() at once, or fs.access on the file
ImageCheck ==
    /\ ppc = "imageCheck"
    /\ IF UnderImages(preq.path) THEN ppc' = "imageAccess" ELSE ppc' = After(rev, "imageCheck")
    /\ UNCHANGED <<rev, storeVars, preq, logged, pres, imageFile>>

\* the callback of fs.access in imageCheckMiddleware
ImageAccessDone ==
    /\ ppc = "imageAccess"
    /\ IF imageFile THEN Forward("imageCheck") ELSE Respond(Answer(404, "json"))
    /\ UNCHANGED <<rev, storeVars>>

\* express.static(images) under /images: a GET of a file that is there is served,
\* anything else falls through
ImagesStatic ==
    /\ ppc = "imagesStatic"
    /\ IF preq.method = "GET" /\ UnderImages(preq.path) /\ imageFile
       THEN Respond(Answer(200, "file"))
       ELSE Forward("imagesStatic")
    /\ UNCHANGED <<rev, storeVars>>

\* the router: a handler, the image route's fs.access, or the final 404
Route ==
    /\ ppc = "route"
    /\ IF <<preq.method, preq.path>> \in HandlerRoutes(rev)
       THEN Respond(Answer(200, "handler"))
       ELSE IF HasImageRoute(rev) /\ preq.method = "GET" /\ UnderImages(preq.path)
       THEN ppc' = "routeAccess" /\ UNCHANGED <<preq, logged, pres, imageFile>>
       ELSE Respond(Answer(404, "generic"))
    /\ UNCHANGED <<rev, storeVars>>

\* the callback of fs.access in app.get("/images/:filename")
ImageRouteAccessDone ==
    /\ ppc = "routeAccess"
    /\ IF imageFile
       THEN ppc' = "sendFile" /\ UNCHANGED <<preq, logged, pres, imageFile>>
       ELSE Respond(Answer(404, "json"))
    /\ UNCHANGED <<rev, storeVars>>

\* res.sendFile(filePath): the file, or the error handler's 404 when it is gone
SendFile ==
    /\ ppc = "sendFile"
    /\ IF imageFile THEN Respond(Answer(200, "file")) ELSE Respond(Answer(404, "generic"))
    /\ UNCHANGED <<rev, storeVars>>

\* the file is created or removed in the images directory
FsChange ==
    /\ imageFile' = ~imageFile
    /\ UNCHANGED <<rev, storeVars, preq, ppc, logged, pres>>

PipeNext ==
    \/ \E r \in PipeRequests : Arrive(r)
    \/ Json
    \/ Cors
    \/ FrontendStatic
    \/ Logger
    \/ ImageCheck
    \/ ImageAccessDone
    \/ ImagesStatic
    \/ Route
    \/ ImageRouteAccessDone
    \/ SendFile
    \/ FsChange

PipeSpec == PipeInit /\ [][PipeNext]_vars

\* C8: a GET under /images/ is answered 200 with the file when the file exists
\* as the response is written, and 404 with a JSON error when it does not.
C8_ImageAnswerFollowsFile ==
    (ppc = "done" /\ preq.method = "GET" /\ UnderImages(preq.path)) =>
        IF pres.existed
        THEN pres.status = 200 /\ pres.kind = "file"
        ELSE pres.status = 404 /\ pres.kind = "json"

\* C10: no response is written for a request before the logger has printed
\* its line for it.
C10_LoggedBeforeAnswered == pres.kind # "none" => logged

====
